---- MODULE Spec2Model ----
(***************************************************************************)
(* Model of node-athena's request layer (src/src/index.ts): createClient   *)
(* and the AthenaRequest operations startQuery, checkQuery, stopQuery and  *)
(* getQueryExecution, each a promise wrapped around a recursive, timer     *)
(* driven retry loop (loopFunc) over one remote Athena command.            *)
(*                                                                         *)
(* Optional JavaScript values are sequences: <<>> is undefined and <<v>>   *)
(* is the value v.  Error messages are sequences of string parts, so that  *)
(* a template string keeps the text interpolated into it.                  *)
(***************************************************************************)
EXTENDS Integers, Sequences, FiniteSets, TLC

VARIABLES ops, request, clientResult

vars == <<ops, request, clientResult>>

(***************************************************************************)
(* Bounds of the model.                                                    *)
(***************************************************************************)
\* largest of the small explicit retryCountMax values a caller configures
MaxRetryCountMax == 2

\* longest object key of a result locator
MaxKeyLen == 3

\* JavaScript numbers are doubles; a value beyond this ceiling is
\* represented by the ceiling (baseRetryWait^retryCount leaves TLC's integers)
NumberCeiling == 1000000 * 1000

(***************************************************************************)
(* Program constants, index.ts:73-75.                                      *)
(***************************************************************************)
defaultBaseRetryWait == 200
defaultRetryWaitMax == 10000
defaultRetryCountMax == 10

(***************************************************************************)
(* Values.                                                                 *)
(***************************************************************************)
undefined == <<>>

\* x ?? d on an optional number: only undefined takes the default
OrNumberNullish(x, d) == IF x = undefined THEN d ELSE x[1]

\* x || d on an optional number: undefined and 0 are falsy
OrNumber(x, d) == IF x = undefined \/ x = <<0>> THEN d ELSE x[1]

Min(a, b) == IF a < b THEN a ELSE b

\* Math.pow(b, n) for non-negative integers, saturating at NumberCeiling
RECURSIVE MathPow(_, _)
MathPow(b, n) ==
  IF n = 0 THEN 1
  ELSE LET p == MathPow(b, n - 1)
       IN IF b > 0 /\ p > NumberCeiling \div b THEN NumberCeiling ELSE p * b

\* callers of the request object; the sequential specification uses one
Callers == {"c1", "c2"}
SeqCallers == {"c1"}

BaseRetryWaits == {undefined, <<0>>, <<10>>}
RetryWaitMaxes == {undefined, <<0>>, <<15>>}
\* undefined, small values, and one value above the default
RetryCountMaxes ==
  {undefined} \cup {<<n>> : n \in 0..MaxRetryCountMax}
  \cup {<<defaultRetryCountMax + 1>>}
BucketUris == {undefined, <<"">>, <<"s3://bucket/out">>}
Regions == {undefined, <<"">>, <<"us-east-1">>}

\* AthenaRequestConfig, index.ts:62-71 (the fields the retry loops read)
Configs ==
  [bucketUri : BucketUris, baseRetryWait : BaseRetryWaits,
   retryWaitMax : RetryWaitMaxes, retryCountMax : RetryCountMaxes]

\* arguments of createClient: the argument itself may be undefined
ClientConfigArgs ==
  {undefined} \cup {<<[bucketUri |-> b]>> : b \in BucketUris}
AwsConfigArgs ==
  {undefined} \cup {<<[region |-> r]>> : r \in Regions}

\* errors a remote command rejects with
NoError == [class |-> "none", message |-> <<>>]
TooManyRequests ==
  [class |-> "TooManyRequestsException", message |-> <<"Rate exceeded">>]
ExhaustedResources ==
  [class |-> "AthenaServiceException",
   message |-> <<"Query exhausted resources at this scale factor">>]
InvalidRequest ==
  [class |-> "InvalidRequestException", message |-> <<"Invalid request">>]
RemoteErrors == {TooManyRequests, ExhaustedResources, InvalidRequest}

\* data a remote command resolves with
NoData ==
  [type |-> "none", QueryExecutionId |-> "", State |-> "",
   StateChangeReason |-> undefined]
StartData(id) == [NoData EXCEPT !.type = "start", !.QueryExecutionId = id]
StopData == [NoData EXCEPT !.type = "stop"]
ExecutionData(state, reason) ==
  [NoData EXCEPT !.type = "execution", !.State = state,
                 !.StateChangeReason = reason]
TimeoutData == [NoData EXCEPT !.type = "timeout"]

QueryExecutionIds == {"qid-1"}
RemoteStates ==
  {"QUEUED", "RUNNING", "SUCCEEDED", "FAILED", "CANCELLED", "PAUSED"}
Reasons == {undefined, <<"">>, <<"SYNTAX_ERROR: line 1">>}
\* GetQueryExecution answers; a reason accompanies the FAILED state
QueryExecutions ==
  {ExecutionData(st, undefined) : st \in RemoteStates}
  \cup {ExecutionData("FAILED", r) : r \in Reasons}

\* what S3 GetObject and the read of its body answer and fail with
ObjectData == [NoData EXCEPT !.type = "object"]
StreamData == [NoData EXCEPT !.type = "stream"]
SlowDown ==
  [class |-> "SlowDown", message |-> <<"Please reduce your request rate.">>]
NoSuchKey ==
  [class |-> "NoSuchKey", message |-> <<"The specified key does not exist.">>]
S3Errors == {SlowDown, NoSuchKey}
BodyErrors == {[class |-> "Error", message |-> <<"aborted">>]}

\* strings that are parsed are sequences of characters
S3Scheme == <<"s", "3", ":", "/", "/">>
\* s3://my-bucket/path/to/object.csv
ExampleBucket ==
  <<"m", "y", "-", "b", "u", "c", "k", "e", "t">>
ExampleKey ==
  <<"p", "a", "t", "h", "/", "t", "o", "/", "o", "b", "j", "e", "c",
  "t", ".", "c", "s", "v">>
ExampleS3Uri == S3Scheme \o ExampleBucket \o <<"/">> \o ExampleKey
Buckets == {<<>>, <<"b">>, <<"b", "k">>, <<"s", "3", ":">>}
Keys == UNION {[1..n -> {"k", "/"}] : n \in 0..MaxKeyLen}
\* locators scheme://B/K, one without a key and one without the scheme
S3Uris ==
  {S3Scheme \o b \o <<"/">> \o k : b \in Buckets, k \in Keys}
  \cup {S3Scheme \o <<"b">>, <<"b", "/", "k">>, ExampleS3Uri}

\* promises
Pending == [status |-> "pending", value |-> NoData, reason |-> NoError]
Fulfilled(v) == [status |-> "fulfilled", value |-> v, reason |-> NoError]
Rejected(e) == [status |-> "rejected", value |-> NoData, reason |-> e]
\* the promise of checkQuery settles with a boolean
NoCheck == [status |-> "none", value |-> FALSE, reason |-> NoError]
CheckPending == [status |-> "pending", value |-> FALSE, reason |-> NoError]
CheckFulfilled(b) == [status |-> "fulfilled", value |-> b, reason |-> NoError]
CheckRejected(e) == [status |-> "rejected", value |-> FALSE, reason |-> e]

IdleOp ==
  [kind |-> "none", caller |-> "none",
   config |-> [bucketUri |-> undefined, baseRetryWait |-> undefined,
               retryWaitMax |-> undefined, retryCountMax |-> undefined],
   outputLocation |-> undefined,
   retryCount |-> 0, calls |-> 0, waits |-> <<>>, phase |-> "idle",
   returned |-> NoData, caught |-> NoError, unhandled |-> NoError,
   promise |-> Pending, checkPromise |-> NoCheck,
   inFlight |-> 0, timers |-> 0,
   s3Uri |-> <<>>, Bucket |-> <<>>, Key |-> <<>>]

(***************************************************************************)
(* Backoff helpers, index.ts:235-245.                                      *)
(***************************************************************************)
\* isRetryException that takes every error for a transient one
isRetryExceptionAny(err) ==
  err.class # "none"

\* isRetryException that knows the rate-limiting class only
isRetryExceptionClassOnly(err) ==
  err.class = "TooManyRequestsException"

\* isRetryException(err)
isRetryException(err) ==
  \/ err.class = "TooManyRequestsException"
  \/ err.message = <<"Query exhausted resources at this scale factor">>

\* canRetry with an inclusive comparison
canRetryInclusive(retryCount, config) ==
  retryCount <= OrNumber(config.retryCountMax, defaultRetryCountMax)

\* canRetry(retryCount, config)
canRetry(retryCount, config) ==
  retryCount < OrNumber(config.retryCountMax, defaultRetryCountMax)

\* startQuery's wait without the Math.min against retryWaitMax
startQueryWaitUncapped(config, retryCount) ==
  OrNumber(config.baseRetryWait, defaultBaseRetryWait) * MathPow(2, retryCount)

\* the wait of startQuery's catch block, index.ts:113-116
startQueryWait(config, retryCount) ==
  Min(OrNumber(config.baseRetryWait, defaultBaseRetryWait)
        * MathPow(2, retryCount),
      OrNumber(config.retryWaitMax, defaultRetryWaitMax))

\* the wait of stopQuery's catch block, index.ts:179-182
stopQueryWait(config, retryCount) ==
  MathPow(OrNumber(config.baseRetryWait, defaultBaseRetryWait), retryCount)

\* the wait of getQueryExecution's catch block, index.ts:206-209
getQueryExecutionWait(config, retryCount) ==
  MathPow(OrNumber(config.baseRetryWait, defaultBaseRetryWait), retryCount)

(***************************************************************************)
(* checkQuery's reactions to the promise of getQueryExecution,             *)
(* index.ts:129-163.                                                       *)
(***************************************************************************)
\* the .then callback: classify queryExecution.Status.State
checkQueryThen(queryExecution) ==
  LET state == queryExecution.State
  IN CASE state \in {"QUEUED", "RUNNING"} -> CheckFulfilled(FALSE)
       [] state = "SUCCEEDED" -> CheckFulfilled(TRUE)
       [] state = "FAILED" ->
            LET r == queryExecution.StateChangeReason
                errMsg == IF r = undefined \/ r = <<"">>
                          THEN <<"FAILED: Execution Error">> ELSE r
            IN CheckRejected([class |-> "Error", message |-> errMsg])
       [] state = "CANCELLED" ->
            CheckRejected([class |-> "Error",
                           message |-> <<"FAILED: Query CANCELLED">>])
       [] OTHER ->
            CheckRejected([class |-> "Error",
                           message |-> <<"FAILED: UnKnown State ", state>>])

\* the promise of checkQuery once the reactions registered on the promise
\* of getQueryExecution have run
checkQuerySettle(promise, checkPromise) ==
  IF checkPromise.status # "pending" THEN checkPromise
  ELSE IF promise.status = "fulfilled" THEN checkQueryThen(promise.value)
  ELSE IF promise.status = "rejected" THEN CheckRejected(promise.reason)
  ELSE checkPromise

(***************************************************************************)
(* The string operations of getResultsStream, index.ts:220-222.            *)
(***************************************************************************)
\* the first position at or after i where pat occurs in str, 0 when none
RECURSIVE IndexFrom(_, _, _)
IndexFrom(str, pat, i) ==
  IF i + Len(pat) - 1 > Len(str) THEN 0
  ELSE IF SubSeq(str, i, i + Len(pat) - 1) = pat THEN i
  ELSE IndexFrom(str, pat, i + 1)

\* str.replace(pat, rep) with a string pattern: the first occurrence only
StringReplace(str, pat, rep) ==
  LET i == IndexFrom(str, pat, 1)
  IN IF i = 0 THEN str
     ELSE SubSeq(str, 1, i - 1) \o rep \o SubSeq(str, i + Len(pat), Len(str))

\* str.split(sep) with a one-character separator
RECURSIVE StringSplit(_, _)
StringSplit(str, sep) ==
  LET i == IndexFrom(str, <<sep>>, 1)
  IN IF i = 0 THEN <<str>>
     ELSE <<SubSeq(str, 1, i - 1)>>
            \o StringSplit(SubSeq(str, i + 1, Len(str)), sep)

\* arr.join(sep)
RECURSIVE ArrayJoin(_, _)
ArrayJoin(arr, sep) ==
  IF arr = <<>> THEN <<>>
  ELSE IF Len(arr) = 1 THEN arr[1]
  ELSE arr[1] \o <<sep>> \o ArrayJoin(Tail(arr), sep)

\* bucket and key where the key is the second segment only
GetObjectParamsSecondSegment(s3Uri) ==
  LET arr == StringSplit(StringReplace(s3Uri, S3Scheme, <<>>), "/")
  IN [Bucket |-> IF arr = <<>> THEN <<>> ELSE Head(arr),
      Key |-> IF Len(arr) < 2 THEN <<>> ELSE arr[2]]

\* the Bucket and Key of the GetObjectCommand, index.ts:220-227
GetObjectParams(s3Uri) ==
  LET arr == StringSplit(StringReplace(s3Uri, S3Scheme, <<>>), "/")
      \* arr.shift() || ''
      bucket == IF arr = <<>> THEN <<>> ELSE Head(arr)
      rest == IF arr = <<>> THEN <<>> ELSE Tail(arr)
  IN [Bucket |-> bucket, Key |-> ArrayJoin(rest, "/")]

(***************************************************************************)
(* The retry loop shared in shape by the three operations.                 *)
(***************************************************************************)
\* the executor of `new Promise`: retryCount = 0, then loopFunc() runs up to
\* its await of athena.send
NewOp(kind, caller, config) ==
  [IdleOp EXCEPT !.kind = kind, !.caller = caller, !.config = config,
                 !.outputLocation =
                    IF kind = "startQuery" THEN config.bucketUri ELSE undefined,
                 !.calls = 1, !.phase = "send", !.inFlight = 1,
                 !.checkPromise =
                    IF caller = "checkQuery" THEN CheckPending ELSE NoCheck]

\* `return data...` in loopFunc: the async function's own promise fulfils,
\* neither resolve nor reject of the enclosing promise is called
LoopReturn(o, data) ==
  LET p == o.promise
  IN [o EXCEPT !.phase = "returned", !.returned = data, !.promise = p,
               !.inFlight = @ - 1,
               !.checkPromise = checkQuerySettle(p, o.checkPromise)]

\* the catch block of loopFunc with the operation's wait
LoopCatch(o, err, wait) ==
  IF isRetryException(err) /\ canRetry(o.retryCount, o.config)
  THEN [o EXCEPT !.phase = "timer", !.caught = err,
                 !.waits = Append(@, wait), !.retryCount = @ + 1,
                 !.inFlight = @ - 1, !.timers = @ + 1,
                 !.returned = TimeoutData]
  ELSE LET p == o.promise
       IN [o EXCEPT !.phase = "threw", !.caught = err, !.unhandled = err,
                    !.promise = p, !.inFlight = @ - 1,
                    !.checkPromise = checkQuerySettle(p, o.checkPromise)]

\* a caller invokes an operation once its previous one has come to rest
CanInvoke(s) ==
  /\ request # "none"
  /\ ops[s].phase \in {"idle", "returned", "threw"}

\* a caller keeps the configuration of its first call
CallerConfigs(s) ==
  IF ops[s].config = IdleOp.config THEN Configs ELSE {ops[s].config}

\* the locators a caller opens: any before it has run a query operation,
\* the result file of its query after one
CallerS3Uris(s) ==
  IF ops[s].kind \in {"none", "getResultsStream"} THEN S3Uris
  ELSE {S3Scheme \o <<"b">> \o <<"/">> \o <<"k">>}

(***************************************************************************)
(* Init and the actions.                                                   *)
(***************************************************************************)
NoClient ==
  [status |-> "none", error |-> <<>>,
   clientConfig |-> undefined, awsConfig |-> undefined]

Init ==
  /\ ops = [s \in Callers |-> IdleOp]
  /\ request = "none"
  /\ clientResult = NoClient

\* createClient without the `.length === 0` tests
createClientUndefinedOnly(clientConfig, awsConfig) ==
  /\ request = "none"
  /\ IF \/ clientConfig = undefined
        \/ clientConfig[1].bucketUri = undefined
     THEN /\ clientResult' =
               [status |-> "threw", error |-> <<"bucket uri required">>,
                clientConfig |-> clientConfig, awsConfig |-> awsConfig]
          /\ request' = request
     ELSE IF \/ awsConfig = undefined
             \/ awsConfig[1].region = undefined
     THEN /\ clientResult' =
               [status |-> "threw", error |-> <<"region required">>,
                clientConfig |-> clientConfig, awsConfig |-> awsConfig]
          /\ request' = request
     ELSE /\ clientResult' =
               [status |-> "created", error |-> <<>>,
                clientConfig |-> clientConfig, awsConfig |-> awsConfig]
          /\ request' = "createClient"
  /\ UNCHANGED ops

\* createClient(clientConfig, awsConfig), index.ts:23-47
createClient(clientConfig, awsConfig) ==
  /\ request = "none"
  /\ IF \/ clientConfig = undefined
        \/ clientConfig[1].bucketUri = undefined
        \/ clientConfig[1].bucketUri = <<"">>
     THEN /\ clientResult' =
               [status |-> "threw", error |-> <<"bucket uri required">>,
                clientConfig |-> clientConfig, awsConfig |-> awsConfig]
          /\ request' = request
     ELSE IF \/ awsConfig = undefined
             \/ awsConfig[1].region = undefined
             \/ awsConfig[1].region = <<"">>
     THEN /\ clientResult' =
               [status |-> "threw", error |-> <<"region required">>,
                clientConfig |-> clientConfig, awsConfig |-> awsConfig]
          /\ request' = request
     ELSE /\ clientResult' =
               [status |-> "created", error |-> <<>>,
                clientConfig |-> clientConfig, awsConfig |-> awsConfig]
          /\ request' = "createClient"
  /\ UNCHANGED ops

\* new AthenaRequest(athena, s3), index.ts:80-83, by a program that builds
\* the request itself instead of calling createClient
AthenaRequest ==
  /\ request = "none"
  /\ clientResult.status = "none"
  /\ request' = "constructor"
  /\ UNCHANGED <<ops, clientResult>>

\* startQuery(query, config), index.ts:84-124, up to the first await
startQuery(s, config) ==
  /\ CanInvoke(s)
  /\ ops' = [ops EXCEPT ![s] = NewOp("startQuery", "direct", config)]
  /\ UNCHANGED <<request, clientResult>>

\* StartQueryExecution answers: index.ts:107-110
startQueryReturn(s) ==
  /\ ops[s].kind = "startQuery" /\ ops[s].phase = "send"
  /\ \E id \in QueryExecutionIds :
       ops' = [ops EXCEPT ![s] = LoopReturn(@, StartData(id))]
  /\ UNCHANGED <<request, clientResult>>

\* a catch block whose retryCount is one counter shared by all operations
startQueryCatchShared(s) ==
  /\ ops[s].kind = "startQuery" /\ ops[s].phase = "send"
  /\ \E err \in RemoteErrors :
       LET n == LoopCatch(ops[s], err,
                          startQueryWait(ops[s].config, ops[s].retryCount))
       IN ops' = [t \in Callers |->
                    IF t = s THEN n
                    ELSE IF n.phase = "timer"
                    THEN [ops[t] EXCEPT !.retryCount = @ + 1]
                    ELSE ops[t]]
  /\ UNCHANGED <<request, clientResult>>

\* StartQueryExecution fails: index.ts:111-120
startQueryCatch(s) ==
  /\ ops[s].kind = "startQuery" /\ ops[s].phase = "send"
  /\ \E err \in RemoteErrors :
       ops' = [ops EXCEPT ![s] =
                 LoopCatch(@, err, startQueryWait(@.config, @.retryCount))]
  /\ UNCHANGED <<request, clientResult>>

\* a stopQuery that refuses a query another call has already stopped
stopQueryOnce(s, config) ==
  /\ CanInvoke(s)
  /\ IF \E t \in Callers \ {s} :
          ops[t].kind = "stopQuery" /\ ops[t].phase = "returned"
     THEN LET e == [class |-> "Error", message |-> <<"already stopped">>]
          IN ops' = [ops EXCEPT ![s] =
                       [NewOp("stopQuery", "direct", config) EXCEPT
                          !.phase = "threw", !.calls = 0, !.inFlight = 0,
                          !.caught = e, !.promise = Rejected(e)]]
     ELSE ops' = [ops EXCEPT ![s] = NewOp("stopQuery", "direct", config)]
  /\ UNCHANGED <<request, clientResult>>

\* stopQuery(queryId, config), index.ts:167-190, up to the first await
stopQuery(s, config) ==
  /\ CanInvoke(s)
  /\ ops' = [ops EXCEPT ![s] = NewOp("stopQuery", "direct", config)]
  /\ UNCHANGED <<request, clientResult>>

\* StopQueryExecution answers: index.ts:175-176
stopQueryReturn(s) ==
  /\ ops[s].kind = "stopQuery" /\ ops[s].phase = "send"
  /\ ops' = [ops EXCEPT ![s] = LoopReturn(@, StopData)]
  /\ UNCHANGED <<request, clientResult>>

\* StopQueryExecution fails: index.ts:177-186
stopQueryCatch(s) ==
  /\ ops[s].kind = "stopQuery" /\ ops[s].phase = "send"
  /\ \E err \in RemoteErrors :
       ops' = [ops EXCEPT ![s] =
                 LoopCatch(@, err, stopQueryWait(@.config, @.retryCount))]
  /\ UNCHANGED <<request, clientResult>>

\* getQueryExecution(queryId, config), index.ts:192-217, up to the first await
getQueryExecution(s, config) ==
  /\ CanInvoke(s)
  /\ ops' = [ops EXCEPT ![s] = NewOp("getQueryExecution", "direct", config)]
  /\ UNCHANGED <<request, clientResult>>

\* checkQuery(queryId, config), index.ts:126-165: calls getQueryExecution and
\* registers its .then and .catch reactions
checkQuery(s, config) ==
  /\ CanInvoke(s)
  /\ ops' = [ops EXCEPT ![s] =
               NewOp("getQueryExecution", "checkQuery", config)]
  /\ UNCHANGED <<request, clientResult>>

\* GetQueryExecution answers: index.ts:200-203
getQueryExecutionReturn(s) ==
  /\ ops[s].kind = "getQueryExecution" /\ ops[s].phase = "send"
  /\ \E qe \in QueryExecutions :
       ops' = [ops EXCEPT ![s] = LoopReturn(@, qe)]
  /\ UNCHANGED <<request, clientResult>>

\* GetQueryExecution fails: index.ts:204-213
getQueryExecutionCatch(s) ==
  /\ ops[s].kind = "getQueryExecution" /\ ops[s].phase = "send"
  /\ \E err \in RemoteErrors :
       ops' = [ops EXCEPT ![s] =
                 LoopCatch(@, err,
                           getQueryExecutionWait(@.config, @.retryCount))]
  /\ UNCHANGED <<request, clientResult>>

\* a timer that stays armed after it has fired (setInterval)
setIntervalFires(s) ==
  /\ ops[s].phase = "timer"
  /\ ops' = [ops EXCEPT ![s].phase = "send", ![s].calls = @ + 1,
                        ![s].inFlight = @ + 1]
  /\ UNCHANGED <<request, clientResult>>

\* the timer armed by setTimeout(loopFunc, wait) fires: loopFunc runs up to
\* its await of athena.send
setTimeoutFires(s) ==
  /\ ops[s].phase = "timer"
  /\ ops' = [ops EXCEPT ![s].phase = "send", ![s].calls = @ + 1,
                        ![s].timers = @ - 1, ![s].inFlight = @ + 1]
  /\ UNCHANGED <<request, clientResult>>

\* getResultsStream(s3Uri), index.ts:219-228, up to the await of s3.send
getResultsStream(s, s3Uri) ==
  /\ CanInvoke(s)
  /\ ops' = [ops EXCEPT ![s] =
               [IdleOp EXCEPT !.kind = "getResultsStream",
                              !.caller = "direct", !.s3Uri = s3Uri,
                              !.Bucket = GetObjectParams(s3Uri).Bucket,
                              !.Key = GetObjectParams(s3Uri).Key,
                              !.calls = 1, !.inFlight = 1, !.phase = "send"]]
  /\ UNCHANGED <<request, clientResult>>

\* GetObject answers: index.ts:223-230, up to the await of the body
getResultsStreamSendReturn(s) ==
  /\ ops[s].kind = "getResultsStream" /\ ops[s].phase = "send"
  /\ ops' = [ops EXCEPT ![s].phase = "body", ![s].inFlight = @ - 1,
                        ![s].returned = ObjectData]
  /\ UNCHANGED <<request, clientResult>>

\* a GetObject failure that is retried once when S3 asks to slow down
getResultsStreamSendRetry(s) ==
  /\ ops[s].kind = "getResultsStream" /\ ops[s].phase = "send"
  /\ \E err \in S3Errors :
       IF err = SlowDown /\ ops[s].calls = 1
       THEN ops' = [ops EXCEPT ![s].calls = @ + 1, ![s].caught = err]
       ELSE ops' = [ops EXCEPT ![s].phase = "threw", ![s].inFlight = @ - 1,
                               ![s].caught = err, ![s].promise = Rejected(err)]
  /\ UNCHANGED <<request, clientResult>>

\* GetObject fails: the async function rejects with the error
getResultsStreamSendThrow(s) ==
  /\ ops[s].kind = "getResultsStream" /\ ops[s].phase = "send"
  /\ \E err \in S3Errors :
       ops' = [ops EXCEPT ![s].phase = "threw", ![s].inFlight = @ - 1,
                          ![s].caught = err, ![s].promise = Rejected(err)]
  /\ UNCHANGED <<request, clientResult>>

\* the body is read: index.ts:230-231
getResultsStreamBodyReturn(s) ==
  /\ ops[s].kind = "getResultsStream" /\ ops[s].phase = "body"
  /\ ops' = [ops EXCEPT ![s].phase = "returned", ![s].returned = StreamData,
                        ![s].promise = Fulfilled(StreamData)]
  /\ UNCHANGED <<request, clientResult>>

\* reading the body fails: the async function rejects with the error
getResultsStreamBodyThrow(s) ==
  /\ ops[s].kind = "getResultsStream" /\ ops[s].phase = "body"
  /\ \E err \in BodyErrors :
       ops' = [ops EXCEPT ![s].phase = "threw", ![s].caught = err,
                          ![s].promise = Rejected(err)]
  /\ UNCHANGED <<request, clientResult>>

Next ==
  \/ \E cc \in ClientConfigArgs, ac \in AwsConfigArgs : createClient(cc, ac)
  \/ AthenaRequest
  \/ \E s \in SeqCallers : \E config \in CallerConfigs(s) :
       startQuery(s, config)
  \/ \E s \in SeqCallers : startQueryReturn(s)
  \/ \E s \in SeqCallers : startQueryCatch(s)
  \/ \E s \in SeqCallers : \E config \in CallerConfigs(s) :
       stopQuery(s, config)
  \/ \E s \in SeqCallers : stopQueryReturn(s)
  \/ \E s \in SeqCallers : stopQueryCatch(s)
  \/ \E s \in SeqCallers : \E config \in CallerConfigs(s) :
       getQueryExecution(s, config)
  \/ \E s \in SeqCallers : \E config \in CallerConfigs(s) :
       checkQuery(s, config)
  \/ \E s \in SeqCallers : getQueryExecutionReturn(s)
  \/ \E s \in SeqCallers : getQueryExecutionCatch(s)
  \/ \E s \in SeqCallers : setTimeoutFires(s)
  \/ \E s \in SeqCallers : \E s3Uri \in CallerS3Uris(s) :
       getResultsStream(s, s3Uri)
  \/ \E s \in SeqCallers : getResultsStreamSendReturn(s)
  \/ \E s \in SeqCallers : getResultsStreamSendThrow(s)
  \/ \E s \in SeqCallers : getResultsStreamBodyReturn(s)
  \/ \E s \in SeqCallers : getResultsStreamBodyThrow(s)

Spec == Init /\ [][Next]_vars

(***************************************************************************)
(* Two callers working one request object concurrently, built by a         *)
(* successful createClient, with a small set of configurations.            *)
(***************************************************************************)
ConcurrentConfigs ==
  {[bucketUri |-> <<"s3://bucket/out">>, baseRetryWait |-> <<10>>,
    retryWaitMax |-> undefined, retryCountMax |-> <<n>>] :
     n \in 1..MaxRetryCountMax}

ConcurrentCallerConfigs(s) ==
  IF ops[s].config = IdleOp.config THEN ConcurrentConfigs
  ELSE {ops[s].config}

InitConcurrent ==
  /\ ops = [s \in Callers |-> IdleOp]
  /\ request = "createClient"
  /\ clientResult =
       [status |-> "created", error |-> <<>>,
        clientConfig |-> <<[bucketUri |-> <<"s3://bucket/out">>]>>,
        awsConfig |-> <<[region |-> <<"us-east-1">>]>>]

NextConcurrent ==
  \/ \E s \in Callers : \E config \in ConcurrentCallerConfigs(s) :
       startQuery(s, config)
  \/ \E s \in Callers : startQueryReturn(s)
  \/ \E s \in Callers : startQueryCatch(s)
  \/ \E s \in Callers : \E config \in ConcurrentCallerConfigs(s) :
       stopQuery(s, config)
  \/ \E s \in Callers : stopQueryReturn(s)
  \/ \E s \in Callers : stopQueryCatch(s)
  \/ \E s \in Callers : \E config \in ConcurrentCallerConfigs(s) :
       getQueryExecution(s, config)
  \/ \E s \in Callers : \E config \in ConcurrentCallerConfigs(s) :
       checkQuery(s, config)
  \/ \E s \in Callers : getQueryExecutionReturn(s)
  \/ \E s \in Callers : getQueryExecutionCatch(s)
  \/ \E s \in Callers : setTimeoutFires(s)

SpecConcurrent == InitConcurrent /\ [][NextConcurrent]_vars

(***************************************************************************)
(* The vocabulary of the specification, resolved from a configuration:     *)
(* a retry setting that is absent or 0 takes its default.                  *)
(***************************************************************************)
BaseWaitMs(config) ==
  IF config.baseRetryWait \in {undefined, <<0>>} THEN 200
  ELSE config.baseRetryWait[1]
MaxWaitMs(config) ==
  IF config.retryWaitMax \in {undefined, <<0>>} THEN 10000
  ELSE config.retryWaitMax[1]
MaxAttempts(config) ==
  IF config.retryCountMax \in {undefined, <<0>>} THEN 10
  ELSE config.retryCountMax[1]
Transient(err) == err \in {TooManyRequests, ExhaustedResources}
AtRest(o) == o.phase \in {"returned", "threw"}
RECURSIVE SumOf(_)
SumOf(q) == IF q = <<>> THEN 0 ELSE Head(q) + SumOf(Tail(q))

(***************************************************************************)
(* C1.  When StartQueryExecution is throttled twice and then answers,      *)
(* startQuery returns the execution id to its caller after exactly three   *)
(* remote calls separated by waits of baseWaitMs and 2*baseWaitMs (10 and  *)
(* 20, 30 in total, for baseWaitMs = 10).                                  *)
(***************************************************************************)
C1_SubmitReturnsIdAfterTwoThrottles ==
  \A s \in Callers :
    LET o == ops[s]
        b == BaseWaitMs(o.config)
    IN (/\ o.kind = "startQuery" /\ o.phase = "returned"
        /\ o.retryCount = 2 /\ 2 * b <= MaxWaitMs(o.config))
       => /\ o.promise.status = "fulfilled"
          /\ o.promise.value.QueryExecutionId \in QueryExecutionIds
          /\ o.calls = 3
          /\ o.waits = <<b, 2 * b>>
          /\ (b = 10 => SumOf(o.waits) = 30)

(***************************************************************************)
(* C2.  Every invocation of startQuery, checkQuery, stopQuery or           *)
(* getQueryExecution settles: once the operation has come to rest (no      *)
(* remote call outstanding, no retry timer armed) the promise handed to    *)
(* the caller is fulfilled or rejected, not pending.                       *)
(***************************************************************************)
C2_EveryOperationSettles ==
  \A s \in Callers :
    LET o == ops[s]
    IN AtRest(o) =>
         /\ o.promise.status \in {"fulfilled", "rejected"}
         /\ o.caller = "checkQuery" =>
              o.checkPromise.status \in {"fulfilled", "rejected"}

(***************************************************************************)
(* C3.  When StartQueryExecution fails with a non-retryable error, or with *)
(* a transient error once the retries are exhausted, the promise of        *)
(* startQuery is rejected with that last error.                            *)
(***************************************************************************)
C3_SubmitFailureCarriesCause ==
  \A s \in Callers :
    LET o == ops[s]
    IN (/\ o.kind = "startQuery" /\ o.phase = "threw"
        /\ \/ ~Transient(o.caught)
           \/ o.retryCount = MaxAttempts(o.config))
       => o.promise = Rejected(o.caught)

(***************************************************************************)
(* C4.  checkQuery classifies every state its metadata fetch obtains and   *)
(* settles with exactly one outcome: QUEUED and RUNNING fulfil with false, *)
(* SUCCEEDED fulfils with true, FAILED rejects with the remote reason or   *)
(* the default message, CANCELLED rejects with the cancelled message, any  *)
(* other state rejects with the unknown-state message holding the state.   *)
(***************************************************************************)
C4_CheckStatusClassifiesEveryState ==
  \A s \in Callers :
    LET o == ops[s]
        st == o.returned.State
        r == o.returned.StateChangeReason
        p == o.checkPromise
    IN (o.caller = "checkQuery" /\ o.phase = "returned")
       => /\ p.status \in {"fulfilled", "rejected"}
          /\ st \in {"QUEUED", "RUNNING"} => p = CheckFulfilled(FALSE)
          /\ st = "SUCCEEDED" => p = CheckFulfilled(TRUE)
          /\ st = "FAILED" =>
               /\ p.status = "rejected"
               /\ p.reason.message # <<>> /\ p.reason.message # <<"">>
               /\ p.reason.message =
                    (IF r \in {undefined, <<"">>}
                     THEN <<"FAILED: Execution Error">> ELSE r)
          /\ st = "CANCELLED" =>
               /\ p.status = "rejected"
               /\ p.reason.message = <<"FAILED: Query CANCELLED">>
          /\ st \notin {"QUEUED", "RUNNING", "SUCCEEDED", "FAILED",
                        "CANCELLED"} =>
               /\ p.status = "rejected"
               /\ p.reason.message = <<"FAILED: UnKnown State ", st>>

(***************************************************************************)
(* C5 as stated.  startQuery with a missing or empty output location fails *)
(* at once with a configuration error and issues no remote call, and no    *)
(* remote call of any kind is issued unless a non-empty output location    *)
(* and a non-empty region are present.                                     *)
(***************************************************************************)
C5_SubmitRejectsEmptyOutputLocation ==
  \A s \in Callers :
    LET o == ops[s]
    IN /\ (o.kind = "startQuery" /\ o.config.bucketUri \in {undefined, <<"">>})
            => o.calls = 0 /\ o.promise.status = "rejected"
       /\ o.calls > 0 =>
            /\ clientResult.status = "created"
            /\ clientResult.awsConfig[1].region \notin {undefined, <<"">>}
            /\ clientResult.clientConfig[1].bucketUri \notin {undefined, <<"">>}

(***************************************************************************)
(* C5 amended.  createClient throws 'bucket uri required' when the client  *)
(* configuration or its bucketUri is missing or empty, otherwise throws    *)
(* 'region required' when the AWS configuration or its region is missing   *)
(* or empty; a throwing createClient builds no request object, and without *)
(* a request object no remote call is issued.  A client exists only with a *)
(* non-empty bucketUri and a non-empty region.                             *)
(***************************************************************************)
C5_CreateClientFailsFast ==
  LET cc == clientResult.clientConfig
      ac == clientResult.awsConfig
      noBucket == cc = undefined \/ cc[1].bucketUri \in {undefined, <<"">>}
      noRegion == ac = undefined \/ ac[1].region \in {undefined, <<"">>}
  IN /\ clientResult.status = "threw" =>
          /\ request # "createClient"
          /\ noBucket \/ noRegion
          /\ noBucket => clientResult.error = <<"bucket uri required">>
          /\ ~noBucket => clientResult.error = <<"region required">>
     /\ clientResult.status = "created" => ~noBucket /\ ~noRegion
     /\ request = "createClient" => clientResult.status = "created"
     /\ request = "none" => \A s \in Callers : ops[s].calls = 0

C5_Witness ==
  /\ clientResult.status = "threw"
  /\ clientResult.clientConfig = <<[bucketUri |-> <<"">>]>>
  /\ clientResult.error = <<"bucket uri required">>
  /\ request = "none"

(***************************************************************************)
(* C6.  The retry decision taken after a failed remote call: it is to      *)
(* retry whenever the error is transient and attemptCount < maxAttempts,   *)
(* not to retry when attemptCount = maxAttempts whatever the error, and    *)
(* not to retry on a non-transient error at any attemptCount.              *)
(***************************************************************************)
C6_RetryDecision ==
  \A s \in Callers :
    LET o == ops[s]
        retry == o.phase = "timer"
        attemptCount == IF retry THEN o.retryCount - 1 ELSE o.retryCount
    IN o.phase \in {"timer", "threw"} =>
         /\ (Transient(o.caught) /\ attemptCount < MaxAttempts(o.config))
              => retry
         /\ attemptCount = MaxAttempts(o.config) => ~retry
         /\ ~Transient(o.caught) => ~retry

C6_Witness ==
  \E s \in Callers :
    /\ ops[s].kind = "startQuery" /\ ops[s].phase = "threw"
    /\ ops[s].caught = ExhaustedResources
    /\ ops[s].retryCount = MaxAttempts(ops[s].config)
    /\ ops[s].retryCount > 0

(***************************************************************************)
(* C7.  Within one operation retryCount starts at zero, grows by exactly   *)
(* one per retried failure and never passes maxAttempts; an operation      *)
(* that gives up on a transient error has made exactly maxAttempts retries *)
(* and maxAttempts + 1 remote calls, and makes no remote call afterwards.  *)
(***************************************************************************)
C7_AttemptCounter ==
  /\ [](\A s \in Callers :
          LET o == ops[s]
          IN /\ o.retryCount <= MaxAttempts(o.config)
             /\ Len(o.waits) = o.retryCount
             /\ o.phase \in {"send", "returned", "threw"} =>
                  o.calls = o.retryCount + 1
             /\ o.phase = "timer" => o.calls = o.retryCount
             /\ (o.phase = "threw" /\ Transient(o.caught)) =>
                  /\ o.retryCount = MaxAttempts(o.config)
                  /\ o.calls = MaxAttempts(o.config) + 1)
  /\ [][\A s \in Callers :
          LET o == ops[s]
              n == ops'[s]
              invoked == /\ o.phase \in {"idle", "returned", "threw"}
                         /\ n.phase = "send"
          IN /\ invoked => n.retryCount = 0 /\ n.calls = 1
             /\ ~invoked =>
                  /\ n.retryCount \in {o.retryCount, o.retryCount + 1}
                  /\ n.retryCount = o.retryCount + 1 <=>
                       (o.phase = "send" /\ n.phase = "timer")
                  /\ o.phase \in {"returned", "threw"} => n = o]_vars

C7_Witness ==
  \E s \in Callers :
    /\ ops[s].kind = "stopQuery" /\ ops[s].phase = "threw"
    /\ ops[s].caught = TooManyRequests
    /\ ops[s].config.retryCountMax = undefined
    /\ ops[s].calls = 11

(***************************************************************************)
(* C8.  In startQuery the wait before the retry that follows the n-th      *)
(* failure (n from 0) is min(baseWaitMs * 2^n, maxWaitMs); the waits never *)
(* decrease and never exceed maxWaitMs.  With base 200 and max 10000:      *)
(* n = 0 gives 200, n = 5 gives 6400, n = 10 gives 10000.                  *)
(***************************************************************************)
C8_SubmitWait ==
  \A s \in Callers :
    LET o == ops[s]
        b == BaseWaitMs(o.config)
        m == MaxWaitMs(o.config)
        len == Len(o.waits)
    IN o.kind = "startQuery" =>
         /\ \A i \in 1..len :
              /\ o.waits[i] = Min(b * 2^(i - 1), m)
              /\ o.waits[i] <= m
              /\ i > 1 => o.waits[i - 1] <= o.waits[i]
         /\ (b = 200 /\ m = 10000) =>
              /\ len >= 1 => o.waits[1] = 200
              /\ len >= 6 => o.waits[6] = 6400
              /\ len >= 11 => o.waits[11] = 10000

C8_Witness ==
  \E s \in Callers :
    /\ ops[s].kind = "startQuery"
    /\ ops[s].config.baseRetryWait = undefined
    /\ ops[s].config.retryWaitMax = undefined
    /\ Len(ops[s].waits) = 11
    /\ ops[s].waits[6] = 6400 /\ ops[s].waits[11] = 10000

(***************************************************************************)
(* C9.  In every operation that retries (startQuery, stopQuery and the     *)
(* getQueryExecution behind checkQuery) the waits never decrease with the  *)
(* attempt count and never exceed maxWaitMs.                               *)
(***************************************************************************)
C9_WaitsMonotoneAndCapped ==
  \A s \in Callers :
    LET o == ops[s]
    IN \A i \in 1..Len(o.waits) :
         /\ o.waits[i] <= MaxWaitMs(o.config)
         /\ i > 1 => o.waits[i - 1] <= o.waits[i]

(***************************************************************************)
(* C10.  stopQuery and getQueryExecution follow the retry discipline of    *)
(* startQuery: against the same failures and configuration they make as    *)
(* many remote calls and schedule the same waits,                          *)
(* min(baseWaitMs * 2^n, maxWaitMs).                                       *)
(***************************************************************************)
C10_SameDisciplineAsSubmit ==
  \A s \in Callers :
    LET o == ops[s]
    IN o.kind \in {"stopQuery", "getQueryExecution"} =>
         /\ \A i \in 1..Len(o.waits) :
              /\ o.waits[i] = startQueryWait(o.config, i - 1)
              /\ o.waits[i] =
                   Min(BaseWaitMs(o.config) * 2^(i - 1), MaxWaitMs(o.config))
         /\ o.phase # "timer" => o.calls = Len(o.waits) + 1
         /\ (o.phase = "threw" /\ Transient(o.caught)) =>
              o.calls = MaxAttempts(o.config) + 1

Retrying(o) == o.kind \in {"startQuery", "stopQuery", "getQueryExecution"}

(***************************************************************************)
(* C11.  For every locator s3://B/K whose B holds no separator,            *)
(* getResultsStream asks for the object with Bucket = B and Key = K        *)
(* exactly, also when K holds separators: s3://my-bucket/path/to/object.csv*)
(* gives bucket my-bucket and key path/to/object.csv.                      *)
(***************************************************************************)
C11_LocatorResolution ==
  \A s \in Callers :
    LET o == ops[s]
    IN o.kind = "getResultsStream" =>
         /\ \A b \in Buckets \cup {ExampleBucket},
               k \in Keys \cup {ExampleKey} :
              o.s3Uri = S3Scheme \o b \o <<"/">> \o k =>
                o.Bucket = b /\ o.Key = k
         /\ o.s3Uri = ExampleS3Uri =>
              o.Bucket = ExampleBucket /\ o.Key = ExampleKey

C11_Witness ==
  \E s \in Callers :
    /\ ops[s].kind = "getResultsStream" /\ ops[s].calls = 1
    /\ ops[s].s3Uri = ExampleS3Uri
    /\ ops[s].Key = ExampleKey

(***************************************************************************)
(* C12.  When StopQueryExecution fails with a non-retryable error, the     *)
(* promise of stopQuery is rejected with that error.                       *)
(***************************************************************************)
C12_CancelFailurePropagates ==
  \A s \in Callers :
    LET o == ops[s]
    IN (o.kind = "stopQuery" /\ o.phase = "threw" /\ ~Transient(o.caught))
       => o.promise.status = "rejected" /\ o.promise.reason = o.caught

(***************************************************************************)
(* C15.  getResultsStream is not retried: each call issues exactly one     *)
(* GetObject call, arms no timer, and when the call fails, also with a     *)
(* throttling error, the promise is rejected with that very error.         *)
(***************************************************************************)
C15_ResultStreamNotRetried ==
  \A s \in Callers :
    LET o == ops[s]
    IN o.kind = "getResultsStream" =>
         /\ o.calls = 1 /\ o.retryCount = 0
         /\ o.waits = <<>> /\ o.timers = 0
         /\ o.phase = "threw" =>
              /\ o.caught \in S3Errors \cup BodyErrors
              /\ o.promise = Rejected(o.caught)
              /\ o.inFlight = 0
         /\ o.promise.status = "rejected" => o.phase = "threw"

C15_Witness ==
  \E s \in Callers :
    /\ ops[s].kind = "getResultsStream" /\ ops[s].phase = "threw"
    /\ ops[s].caught = SlowDown
    /\ ops[s].promise = Rejected(SlowDown)
    /\ ops[s].calls = 1

(***************************************************************************)
(* C16.  A non-retryable error ends the operation at once: when a remote   *)
(* call of startQuery, stopQuery or getQueryExecution fails with an error  *)
(* that is not transient, no wait is scheduled, whatever the attempt       *)
(* count, and the operation issues no further remote call.                 *)
(***************************************************************************)
C16_NonRetryableEndsOperation ==
  [][\A s \in Callers :
       LET o == ops[s]
           n == ops'[s]
       IN /\ (/\ Retrying(o) /\ o.phase = "send" /\ n # o
              /\ n.phase # "returned" /\ ~Transient(n.caught))
             => /\ n.phase = "threw"
                /\ n.waits = o.waits /\ n.timers = 0
                /\ n.calls = o.calls /\ n.inFlight = 0
          /\ (/\ Retrying(o) /\ o.phase = "threw" /\ ~Transient(o.caught)
              /\ n # o)
             => /\ n.phase = "send" /\ n.calls = 1
                /\ n.retryCount = 0 /\ n.waits = <<>>]_vars

C16_Witness ==
  \E s \in Callers :
    /\ ops[s].kind = "stopQuery" /\ ops[s].phase = "threw"
    /\ ops[s].caught = InvalidRequest
    /\ ops[s].retryCount = 1 /\ ops[s].calls = 2
    /\ Len(ops[s].waits) = 1

(***************************************************************************)
(* C18 as stated.  checkQuery is one stateless poll: it makes one metadata *)
(* fetch with its retries, classifies the state that fetch returned,       *)
(* issues no further remote call, and its outcome depends on that state    *)
(* alone.                                                                  *)
(***************************************************************************)
C18_CheckStatusSinglePoll ==
  \A s \in Callers :
    LET o == ops[s]
    IN (o.caller = "checkQuery" /\ o.phase = "returned") =>
         /\ o.calls = o.retryCount + 1
         /\ o.inFlight = 0 /\ o.timers = 0
         /\ o.checkPromise = checkQueryThen(o.returned)

(***************************************************************************)
(* C19.  Within one invocation there is at every moment at most one        *)
(* outstanding remote call or one armed retry timer, never both and never  *)
(* two of either; a timer is armed only when the outstanding call has      *)
(* failed, and the next call starts only when that timer fires.            *)
(***************************************************************************)
C19_OneCallOrOneTimer ==
  /\ [](\A s \in Callers :
          /\ ops[s].inFlight \in {0, 1} /\ ops[s].timers \in {0, 1}
          /\ ops[s].inFlight + ops[s].timers <= 1)
  /\ [][\A s \in Callers :
          LET o == ops[s]
              n == ops'[s]
              invoked == /\ o.phase \in {"idle", "returned", "threw"}
                         /\ n.phase = "send"
          IN /\ n.timers > o.timers =>
                  /\ o.inFlight = 1 /\ n.inFlight = 0
                  /\ n.caught \in RemoteErrors
             /\ (n.inFlight > o.inFlight /\ ~invoked) =>
                  /\ o.timers = 1 /\ n.timers = 0
                  /\ n.calls = o.calls + 1]_vars

C19_Witness ==
  \E s \in Callers :
    /\ ops[s].kind = "getQueryExecution" /\ ops[s].phase = "send"
    /\ ops[s].retryCount = 2 /\ ops[s].calls = 3
    /\ ops[s].inFlight = 1 /\ ops[s].timers = 0

(***************************************************************************)
(* C20.  A retry setting given as 0 behaves like the setting left out:     *)
(* retryCountMax = 0 still allows 10 retries of a transient failure,       *)
(* baseRetryWait = 0 waits from a base of 200, and retryWaitMax = 0 caps   *)
(* the wait of startQuery at 10000.                                        *)
(***************************************************************************)
C20_ZeroIsDefault ==
  \A s \in Callers :
    LET o == ops[s]
        c == o.config
        len == Len(o.waits)
        base == IF c.baseRetryWait = undefined THEN 200
                ELSE IF c.baseRetryWait = <<0>> THEN 200
                ELSE c.baseRetryWait[1]
        cap == IF c.retryWaitMax = undefined THEN 10000
               ELSE IF c.retryWaitMax = <<0>> THEN 10000
               ELSE c.retryWaitMax[1]
    IN Retrying(o) =>
         /\ c.retryCountMax = <<0>> =>
              /\ o.retryCount <= 10
              /\ (o.phase = "threw" /\ Transient(o.caught)) =>
                   o.retryCount = 10 /\ o.calls = 11
         /\ (c.baseRetryWait = <<0>> /\ o.kind = "startQuery") =>
              \A i \in 1..len : o.waits[i] = Min(200 * 2^(i - 1), cap)
         /\ (c.baseRetryWait = <<0>> /\ o.kind # "startQuery") =>
              /\ len >= 2 => o.waits[2] = 200
              /\ len >= 3 => o.waits[3] = 40000
         /\ (c.retryWaitMax = <<0>> /\ o.kind = "startQuery") =>
              \A i \in 1..len : o.waits[i] = Min(base * 2^(i - 1), 10000)

C20_Witness ==
  \E s \in Callers :
    /\ ops[s].kind = "startQuery" /\ ops[s].phase = "threw"
    /\ ops[s].config.retryCountMax = <<0>>
    /\ ops[s].config.baseRetryWait = <<0>>
    /\ ops[s].config.retryWaitMax = <<0>>
    /\ ops[s].calls = 11
    /\ ops[s].waits[1] = 200 /\ ops[s].waits[10] = 10000

(***************************************************************************)
(* C13.  stopQuery is idempotent for the caller: a second stopQuery on a   *)
(* query that an earlier stopQuery has already stopped starts exactly as a *)
(* first one does, asks the remote service, and raises no error of its     *)
(* own; every error it meets is the one its remote call failed with.       *)
(***************************************************************************)
C13_CancelIdempotent ==
  /\ [](\A s \in Callers :
          LET o == ops[s]
          IN o.kind = "stopQuery" =>
               /\ o.calls >= 1
               /\ o.caught \in RemoteErrors \cup {NoError}
               /\ o.unhandled \in RemoteErrors \cup {NoError}
               /\ o.promise.status = "rejected" =>
                    o.promise.reason \in RemoteErrors
               /\ o.phase = "returned" =>
                    o.unhandled = NoError /\ o.promise.status # "rejected"
               /\ o.phase = "threw" => o.unhandled = o.caught)
  /\ [][\A s \in Callers : \A t \in Callers \ {s} :
          LET o == ops[s]
              n == ops'[s]
          IN (/\ ops[t].kind = "stopQuery" /\ ops[t].phase = "returned"
              /\ o.phase \in {"idle", "returned", "threw"}
              /\ n # o /\ n.kind = "stopQuery")
             => /\ n.phase = "send" /\ n.calls = 1 /\ n.inFlight = 1
                /\ n.retryCount = 0 /\ n.waits = <<>>
                /\ n.caught = NoError /\ n.unhandled = NoError
                /\ n.promise = Pending
                /\ ops'[t] = ops[t]]_vars

C13_Witness ==
  /\ ops["c1"].kind = "stopQuery" /\ ops["c1"].phase = "returned"
  /\ ops["c2"].kind = "stopQuery" /\ ops["c2"].phase = "returned"
  /\ ops["c2"].calls = 1 /\ ops["c2"].unhandled = NoError

(***************************************************************************)
(* C14.  Once stopQuery has been issued and the remote service reports the *)
(* execution as CANCELLED, a checkQuery that observes CANCELLED fails with *)
(* the cancelled error.                                                    *)
(***************************************************************************)
C14_PollObservesCancelled ==
  \A s \in Callers : \A t \in Callers \ {s} :
    (/\ ops[t].kind = "stopQuery" /\ ops[t].phase = "returned"
     /\ ops[s].caller = "checkQuery" /\ ops[s].phase = "returned"
     /\ ops[s].returned.State = "CANCELLED")
    => /\ ops[s].checkPromise.status = "rejected"
       /\ ops[s].checkPromise.reason.message = <<"FAILED: Query CANCELLED">>

(***************************************************************************)
(* C17.  Retry state belongs to one invocation: every call starts with     *)
(* retryCount 0, and under any interleaving of two running operations a    *)
(* step of one, a retried failure included, leaves the attempt count, the  *)
(* waits and the number of calls of the other as they are.                 *)
(***************************************************************************)
C17_RetryStateNotShared ==
  /\ [](\A s \in Callers :
          LET o == ops[s]
          IN /\ Len(o.waits) = o.retryCount
             /\ o.retryCount <= MaxAttempts(o.config)
             /\ o.phase \in {"send", "returned", "threw"} =>
                  o.calls = o.retryCount + 1)
  /\ [][\A s \in Callers : \A t \in Callers \ {s} :
          LET o == ops[s]
              n == ops'[s]
          IN /\ n # o =>
                  /\ ops'[t].retryCount = ops[t].retryCount
                  /\ ops'[t].waits = ops[t].waits
                  /\ ops'[t].calls = ops[t].calls
                  /\ ops'[t] = ops[t]
             /\ (o.phase \in {"idle", "returned", "threw"} /\ n # o) =>
                  n.retryCount = 0 /\ n.waits = <<>> /\ n.calls = 1]_vars

C17_Witness ==
  /\ ops["c1"].kind = "startQuery" /\ ops["c1"].phase = "timer"
  /\ ops["c1"].retryCount = 2
  /\ ops["c2"].kind = "stopQuery" /\ ops["c2"].phase = "send"
  /\ ops["c2"].retryCount = 1 /\ ops["c2"].waits = <<1>>

====
